---- MODULE Spec2Model ----
(***************************************************************************)
(* Model of grainme/rusty_hashmap (src/src/lib.rs): a separate-chaining    *)
(* hash table Hashmap<K, V> with a bucket vector, an item counter, an      *)
(* entry API and a borrowing iterator.                                     *)
(*                                                                         *)
(* usize values are kept in two's-complement form: a value x >= 0 stands   *)
(* for itself and a value x < 0 stands for 2^64 + x, so usize::MAX is -1.  *)
(* Small magnitudes are therefore exact, and wrap-around is visible as a   *)
(* change of sign.                                                         *)
(***************************************************************************)
EXTENDS Integers, Sequences, FiniteSets, TLC

\* ---- bounds of the model ----
NumKeys == 2
MaxVal == 1
MaxHash == 1
MaxBuckets == 4

Keys == 1..NumKeys
Values == 0..MaxVal
Hashes == 0..MaxHash

\* ---- program constants ----
INITIAL_NBUCKET == 1
\* V::default() of the integer value type
DefaultValue == 0

\* Option<T>
None == <<>>
Some(x) == <<x>>

VARIABLES
    buckets,          \* Hashmap::buckets : Vec<Vec<(K, V)>>
    items,            \* Hashmap::items : usize
    hash,             \* the key type's Hash impl fed to DefaultHasher
    overflow_checks,  \* build profile: TRUE = arithmetic overflow panics
    iter,             \* the live Iter borrowing the map, if any
    panic             \* "none", or the panic that ended the program

vars == <<buckets, items, hash, overflow_checks, iter, panic>>

\* ---- usize arithmetic ----

\* a > b on usize (unsigned order of the two's-complement forms)
UGt(a, b) == IF (a < 0) = (b < 0) THEN a > b ELSE a < 0

\* a & b for a >= 0; b may be negative (infinitely sign-extended ones)
RECURSIVE BitAnd(_, _)
BitAnd(a, b) ==
    IF a = 0 THEN 0
    ELSE (a % 2) * (b % 2) + 2 * BitAnd(a \div 2, b \div 2)

\* ---- bucket helpers ----

\* a scan that overlooks the first pair of the bucket
PositionSkipFirst(bucket, key) ==
    LET hits == {i \in 2..Len(bucket) : bucket[i][1] = key}
    IN IF hits = {} THEN None
       ELSE Some((CHOOSE i \in hits : \A j \in hits : i <= j) - 1)

\* bucket.iter().position(|(ekey, _)| ekey == key), 0-based, None if absent
Position(bucket, key) ==
    LET hits == {i \in 1..Len(bucket) : bucket[i][1] = key}
    IN IF hits = {} THEN None
       ELSE Some((CHOOSE i \in hits : \A j \in hits : i <= j) - 1)

\* an order-preserving removal: the pairs after ind move down by one
ShiftRemove(bucket, ind) ==
    SubSeq(bucket, 1, ind) \o SubSeq(bucket, ind + 2, Len(bucket))

\* Vec::swap_remove(ind): the last element takes the place of the removed one
SwapRemove(bucket, ind) ==
    LET n == Len(bucket)
    IN IF ind + 1 = n THEN SubSeq(bucket, 1, n - 1)
       ELSE SubSeq([bucket EXCEPT ![ind + 1] = bucket[n]], 1, n - 1)

\* an index masked with the bucket count instead of the bucket count - 1
BucketMaskLen(bs, key) ==
    IF Len(bs) = 0 /\ overflow_checks
    THEN [fault |-> "sub_overflow", idx |-> 0]
    ELSE [fault |-> "none", idx |-> BitAnd(hash[key], Len(bs))]

\* Hashmap::bucket: hasher.finish() & (self.buckets.len() - 1)
Bucket(bs, key) ==
    IF Len(bs) = 0 /\ overflow_checks
    THEN [fault |-> "sub_overflow", idx |-> 0]
    ELSE [fault |-> "none", idx |-> BitAnd(hash[key], Len(bs) - 1)]

\* self.buckets[idx]: the bounds check of the index expression
IndexFault(bs, idx) == IF idx < Len(bs) THEN "none" ELSE "index_oob"

\* ---- resize ----

\* self.buckets.iter_mut().flat_map(|bucket| bucket.drain(..))
RECURSIVE Drain(_)
Drain(bs) == IF bs = <<>> THEN <<>> ELSE Head(bs) \o Drain(Tail(bs))

\* a rehash that masks with half the new length instead of the length - 1
RECURSIVE RehashNoMask(_, _)
RehashNoMask(nb, pairs) ==
    IF pairs = <<>> THEN nb
    ELSE LET p == Head(pairs)
             b == BitAnd(hash[p[1]], Len(nb) \div 2)
         IN RehashNoMask([nb EXCEPT ![b + 1] = Append(@, p)], Tail(pairs))

\* the loop body of resize: rehash against new_bucket.len() and push
RECURSIVE Rehash(_, _)
Rehash(nb, pairs) ==
    IF pairs = <<>> THEN nb
    ELSE LET p == Head(pairs)
             b == BitAnd(hash[p[1]], Len(nb) - 1)
         IN Rehash([nb EXCEPT ![b + 1] = Append(@, p)], Tail(pairs))

\* a growth step of one bucket instead of doubling
TargetSizePlusOne(n) == IF n = 0 THEN INITIAL_NBUCKET ELSE n + 1

\* a growth step that triples instead of doubling
TargetSizeTriple(n) == IF n = 0 THEN INITIAL_NBUCKET ELSE 3 * n

\* target_size of resize
TargetSize(n) == IF n = 0 THEN INITIAL_NBUCKET ELSE 2 * n

\* Hashmap::resize
ResizeOp(bs) ==
    Rehash([i \in 1..TargetSize(Len(bs)) |-> <<>>], Drain(bs))

\* a resize test with >= in place of >
NeedsResizeAtThreshold(bs, it) ==
    Len(bs) = 0 \/ it = (3 * Len(bs)) \div 4 \/ UGt(it, (3 * Len(bs)) \div 4)

\* the resize-before-access test shared by insert and entry
NeedsResize(bs, it) == Len(bs) = 0 \/ UGt(it, (3 * Len(bs)) \div 4)

\* ---- operations of Hashmap, as functions of the table ----

\* Hashmap::insert
InsertOp(bs, it, key, value) ==
    LET resized == NeedsResize(bs, it)
        bs1 == IF resized THEN ResizeOp(bs) ELSE bs
        b == Bucket(bs1, key)
        ifault == IF b.fault # "none" THEN b.fault ELSE IndexFault(bs1, b.idx)
    IN IF ifault # "none"
       THEN [buckets |-> bs1, items |-> it, ret |-> None,
             fault |-> ifault, resized |-> resized]
       ELSE LET bucket == bs1[b.idx + 1]
                pos == Position(bucket, key)
            IN IF pos # None
               THEN \* mem::replace(eval, value)
                    [buckets |-> [bs1 EXCEPT ![b.idx + 1][pos[1] + 1] = <<key, value>>],
                     items |-> it, ret |-> Some(bucket[pos[1] + 1][2]),
                     fault |-> "none", resized |-> resized]
               ELSE IF it = -1 /\ overflow_checks
               THEN \* self.items += 1 at usize::MAX
                    [buckets |-> bs1, items |-> it, ret |-> None,
                     fault |-> "add_overflow", resized |-> resized]
               ELSE [buckets |-> [bs1 EXCEPT ![b.idx + 1] = Append(@, <<key, value>>)],
                     items |-> it + 1, ret |-> None,
                     fault |-> "none", resized |-> resized]

\* Hashmap::get
GetOp(bs, key) ==
    LET b == Bucket(bs, key)
        ifault == IF b.fault # "none" THEN b.fault ELSE IndexFault(bs, b.idx)
    IN IF ifault # "none" THEN [ret |-> None, fault |-> ifault]
       ELSE LET bucket == bs[b.idx + 1]
                pos == Position(bucket, key)
            IN [ret |-> IF pos = None THEN None ELSE Some(bucket[pos[1] + 1][2]),
                fault |-> "none"]

\* Hashmap::contains_key
ContainsKeyOp(bs, key) ==
    LET b == Bucket(bs, key)
        ifault == IF b.fault # "none" THEN b.fault ELSE IndexFault(bs, b.idx)
    IN IF ifault # "none" THEN [ret |-> FALSE, fault |-> ifault]
       ELSE [ret |-> \E i \in 1..Len(bs[b.idx + 1]) : bs[b.idx + 1][i][1] = key,
             fault |-> "none"]

\* a remove that releases the bucket storage when it takes the last counted pair
RemoveOpShrinks(bs, it, key) ==
    LET b == Bucket(bs, key)
        ifault == IF b.fault # "none" THEN b.fault ELSE IndexFault(bs, b.idx)
    IN IF ifault # "none"
       THEN [buckets |-> bs, items |-> it, ret |-> None, fault |-> ifault]
       ELSE LET bucket == bs[b.idx + 1]
                pos == Position(bucket, key)
            IN IF pos = None
               THEN [buckets |-> bs, items |-> it, ret |-> None, fault |-> "none"]
               ELSE IF it = 0 /\ overflow_checks
               THEN [buckets |-> bs, items |-> it, ret |-> None,
                     fault |-> "sub_overflow"]
               ELSE [buckets |-> IF it = 1 /\ Len(bucket) = 1 /\ Len(Drain(bs)) = 1
                                 THEN <<>>
                                 ELSE [bs EXCEPT ![b.idx + 1] = SwapRemove(bucket, pos[1])],
                     items |-> it - 1,
                     ret |-> Some(bucket[pos[1] + 1][2]), fault |-> "none"]

\* Hashmap::remove
RemoveOp(bs, it, key) ==
    LET b == Bucket(bs, key)
        ifault == IF b.fault # "none" THEN b.fault ELSE IndexFault(bs, b.idx)
    IN IF ifault # "none"
       THEN [buckets |-> bs, items |-> it, ret |-> None, fault |-> ifault]
       ELSE LET bucket == bs[b.idx + 1]
                pos == Position(bucket, key)
            IN IF pos = None
               THEN \* the ? operator returns None
                    [buckets |-> bs, items |-> it, ret |-> None, fault |-> "none"]
               ELSE IF it = 0 /\ overflow_checks
               THEN \* self.items -= 1 at zero
                    [buckets |-> bs, items |-> it, ret |-> None,
                     fault |-> "sub_overflow"]
               ELSE [buckets |-> [bs EXCEPT ![b.idx + 1] = SwapRemove(bucket, pos[1])],
                     items |-> it - 1,
                     ret |-> Some(bucket[pos[1] + 1][2]), fault |-> "none"]

\* Hashmap::entry: the table after the resize step and the handle returned
EntryOp(bs, it, key) ==
    LET resized == NeedsResize(bs, it)
        bs1 == IF resized THEN ResizeOp(bs) ELSE bs
        b == Bucket(bs1, key)
        ifault == IF b.fault # "none" THEN b.fault ELSE IndexFault(bs1, b.idx)
    IN IF ifault # "none"
       THEN [buckets |-> bs1, fault |-> ifault, resized |-> resized,
             kind |-> "none", bucket |-> 0, index |-> 0]
       ELSE LET pos == Position(bs1[b.idx + 1], key)
            IN [buckets |-> bs1, fault |-> "none", resized |-> resized,
                kind |-> IF pos = None THEN "Vacant" ELSE "Occupied",
                bucket |-> b.idx,
                index |-> IF pos = None THEN 0 ELSE pos[1]]

\* VacantEntry::insert: push onto the captured bucket, return the pushed value
VacantInsert(bs, e, key, default) ==
    [buckets |-> [bs EXCEPT ![e.bucket + 1] = Append(@, <<key, default>>)],
     ret |-> default]

\* an insert_or that overwrites the value of an Occupied entry
InsertOrOverwrite(bs, e, key, default) ==
    IF e.kind = "Occupied"
    THEN [buckets |-> [bs EXCEPT ![e.bucket + 1][e.index + 1] = <<key, default>>],
          ret |-> default]
    ELSE VacantInsert(bs, e, key, default)

\* Entry::insert_or (and or_default with default = V::default())
InsertOr(bs, e, key, default) ==
    IF e.kind = "Occupied"
    THEN [buckets |-> bs, ret |-> bs[e.bucket + 1][e.index + 1][2]]
    ELSE VacantInsert(bs, e, key, default)

\* map.entry(key).insert_or(default): both calls, on the table
EntryInsertOrOp(bs, it, key, default) ==
    LET e == EntryOp(bs, it, key)
    IN IF e.fault # "none"
       THEN [buckets |-> e.buckets, items |-> it, ret |-> None,
             fault |-> e.fault, resized |-> e.resized]
       ELSE LET r == InsertOr(e.buckets, e, key, default)
            IN [buckets |-> r.buckets, items |-> it, ret |-> Some(r.ret),
                fault |-> "none", resized |-> e.resized]

\* map.entry(key).or_default()
EntryOrDefaultOp(bs, it, key) == EntryInsertOrOp(bs, it, key, DefaultValue)

\* a next that keeps the item index when it moves on to the next bucket
RECURSIVE IterNextOpNoReset(_, _, _)
IterNextOpNoReset(bs, cb, ci) ==
    IF cb >= Len(bs)
    THEN [ret |-> None, current_bucket |-> cb, current_item |-> ci]
    ELSE IF ci < Len(bs[cb + 1])
    THEN [ret |-> Some(bs[cb + 1][ci + 1]),
          current_bucket |-> cb, current_item |-> ci + 1]
    ELSE IterNextOpNoReset(bs, cb + 1, ci)

\* Iter::next: the loop, from cursor (cb, ci)
RECURSIVE IterNextOp(_, _, _)
IterNextOp(bs, cb, ci) ==
    IF cb >= Len(bs)
    THEN [ret |-> None, current_bucket |-> cb, current_item |-> ci]
    ELSE IF ci < Len(bs[cb + 1])
    THEN [ret |-> Some(bs[cb + 1][ci + 1]),
          current_bucket |-> cb, current_item |-> ci + 1]
    ELSE IterNextOp(bs, cb + 1, 0)

\* ---- state machine ----

\* Iter::new; `yielded` keeps what the cursor has returned so far and `done`
\* whether its last next() returned None
NoIter == [active |-> FALSE, current_bucket |-> 0, current_item |-> 0,
           yielded |-> <<>>, done |-> FALSE]

\* a panic unwinds the caller: nothing runs on the map afterwards
Panicked == panic # "none"

\* &mut self methods need the map not to be borrowed by an Iter
CanMutate == ~Panicked /\ ~iter.active

\* Hashmap::new
Init ==
    /\ buckets = <<>>
    /\ items = 0
    /\ hash \in [Keys -> Hashes]
    /\ overflow_checks \in BOOLEAN
    /\ iter = NoIter
    /\ panic = "none"

Insert(k, v) ==
    /\ CanMutate
    /\ LET r == InsertOp(buckets, items, k, v)
       IN /\ Len(r.buckets) <= MaxBuckets
          /\ buckets' = r.buckets
          /\ items' = r.items
          /\ panic' = r.fault
    /\ UNCHANGED <<hash, overflow_checks, iter>>

Resize ==
    /\ CanMutate
    /\ TargetSize(Len(buckets)) <= MaxBuckets
    /\ buckets' = ResizeOp(buckets)
    /\ UNCHANGED <<items, hash, overflow_checks, iter, panic>>

Get(k) ==
    /\ ~Panicked
    /\ panic' = GetOp(buckets, k).fault
    /\ UNCHANGED <<buckets, items, hash, overflow_checks, iter>>

ContainsKey(k) ==
    /\ ~Panicked
    /\ panic' = ContainsKeyOp(buckets, k).fault
    /\ UNCHANGED <<buckets, items, hash, overflow_checks, iter>>

Remove(k) ==
    /\ CanMutate
    /\ LET r == RemoveOp(buckets, items, k)
       IN /\ buckets' = r.buckets
          /\ items' = r.items
          /\ panic' = r.fault
    /\ UNCHANGED <<hash, overflow_checks, iter>>

\* map.entry(k) with the handle dropped unused
EntryDrop(k) ==
    /\ CanMutate
    /\ LET e == EntryOp(buckets, items, k)
       IN /\ Len(e.buckets) <= MaxBuckets
          /\ buckets' = e.buckets
          /\ panic' = e.fault
    /\ UNCHANGED <<items, hash, overflow_checks, iter>>

\* map.entry(k).insert_or(d)
EntryInsertOr(k, d) ==
    /\ CanMutate
    /\ LET r == EntryInsertOrOp(buckets, items, k, d)
       IN /\ Len(r.buckets) <= MaxBuckets
          /\ buckets' = r.buckets
          /\ panic' = r.fault
    /\ UNCHANGED <<items, hash, overflow_checks, iter>>

\* map.entry(k).or_default()
EntryOrDefault(k) ==
    /\ CanMutate
    /\ LET r == EntryOrDefaultOp(buckets, items, k)
       IN /\ Len(r.buckets) <= MaxBuckets
          /\ buckets' = r.buckets
          /\ panic' = r.fault
    /\ UNCHANGED <<items, hash, overflow_checks, iter>>

\* Hashmap::len: reads items, changes nothing
LenCall ==
    /\ ~Panicked
    /\ UNCHANGED vars

\* Hashmap::is_empty: reads items, changes nothing
IsEmpty ==
    /\ ~Panicked
    /\ UNCHANGED vars

\* (&map).into_iter(): Iter::new
IntoIter ==
    /\ ~Panicked
    /\ ~iter.active
    /\ iter' = [NoIter EXCEPT !.active = TRUE]
    /\ UNCHANGED <<buckets, items, hash, overflow_checks, panic>>

\* one call of Iter::next on the live cursor
IterNext ==
    /\ ~Panicked
    /\ iter.active
    /\ LET r == IterNextOp(buckets, iter.current_bucket, iter.current_item)
       IN iter' = [active |-> TRUE,
                   current_bucket |-> r.current_bucket,
                   current_item |-> r.current_item,
                   yielded |-> IF r.ret = None THEN iter.yielded
                               ELSE Append(iter.yielded, r.ret[1]),
                   done |-> r.ret = None]
    /\ UNCHANGED <<buckets, items, hash, overflow_checks, panic>>

\* the Iter goes out of scope and the borrow ends
IterDrop ==
    /\ ~Panicked
    /\ iter.active
    /\ iter' = NoIter
    /\ UNCHANGED <<buckets, items, hash, overflow_checks, panic>>

Next ==
    \/ \E k \in Keys, v \in Values : Insert(k, v)
    \/ Resize
    \/ \E k \in Keys : Get(k)
    \/ \E k \in Keys : ContainsKey(k)
    \/ \E k \in Keys : Remove(k)
    \/ \E k \in Keys : EntryDrop(k)
    \/ \E k \in Keys, d \in Values : EntryInsertOr(k, d)
    \/ \E k \in Keys : EntryOrDefault(k)
    \/ LenCall
    \/ IsEmpty
    \/ IntoIter
    \/ IterNext
    \/ IterDrop

Spec == Init /\ [][Next]_vars

\* ---- the four-key scenario: distinct keys inserted and removed ----

\* the keys of the scenario "insert 4 distinct keys into a new table"
ScenarioKeys == 1..4

\* Hashmap::new, with a Hash impl for the scenario's keys
ScenarioInit ==
    /\ buckets = <<>>
    /\ items = 0
    /\ hash \in [ScenarioKeys -> Hashes]
    /\ overflow_checks \in BOOLEAN
    /\ iter = NoIter
    /\ panic = "none"

\* key k is stored somewhere in table bs
Stored(bs, k) ==
    LET d == Drain(bs)
    IN \E i \in 1..Len(d) : d[i][1] = k

\* insert of a key that is not in the table
InsertNew(k, v) ==
    /\ ~Stored(buckets, k)
    /\ Insert(k, v)

\* remove of a key that is in the table
RemoveStored(k) ==
    /\ Stored(buckets, k)
    /\ Remove(k)

ScenarioNext ==
    \/ \E k \in ScenarioKeys, v \in Values : InsertNew(k, v)
    \/ \E k \in ScenarioKeys : RemoveStored(k)

ScenarioSpec == ScenarioInit /\ [][ScenarioNext]_vars

\* ---- observers used by the properties ----

\* number of stored pairs: the sum of the bucket lengths
RECURSIVE SumLens(_)
SumLens(bs) == IF bs = <<>> THEN 0 ELSE Len(Head(bs)) + SumLens(Tail(bs))

\* how often the pair p occurs in the table bs
Count(bs, p) ==
    LET d == Drain(bs)
    IN Cardinality({i \in 1..Len(d) : d[i] = p})

\* the pairs of two tables agree as multisets
SamePairs(bs1, bs2) ==
    LET d1 == Drain(bs1)
        d2 == Drain(bs2)
    IN /\ Len(d1) = Len(d2)
       /\ \A p \in {d1[i] : i \in 1..Len(d1)} \cup {d2[i] : i \in 1..Len(d2)} :
             Cardinality({i \in 1..Len(d1) : d1[i] = p})
                = Cardinality({i \in 1..Len(d2) : d2[i] = p})

\* the value stored under key k in table bs (k is stored)
ValueOf(bs, k) ==
    LET d == Drain(bs)
    IN d[CHOOSE i \in 1..Len(d) : d[i][1] = k][2]

\* b is a + 1 as numbers: no wrap-around from usize::MAX to 0
PlusOne(a, b) == b = a + 1 /\ a # -1

\* b is a - 1 as numbers: no wrap-around from 0 to usize::MAX
MinusOne(a, b) == b = a - 1 /\ a # 0

\* table bs answers get and contains_key for every stored key other than
\* `called` as the current table does
KeepsOthers(bs, called) ==
    \A k \in Keys \ {called} :
        LET g == GetOp(buckets, k)
        IN (g.fault = "none" /\ g.ret # None) =>
              /\ GetOp(bs, k) = g
              /\ ContainsKeyOp(bs, k) = [ret |-> TRUE, fault |-> "none"]

TypeOK ==
    /\ buckets \in Seq(Seq(Keys \X Values))
    /\ items \in Int
    /\ overflow_checks \in BOOLEAN

\* ---- properties ----

\* C1: round-trip. In every reachable state where the map can be called
\* mutably, insert(k, v) leaves a table in
\* which get(k) is Some(v) and contains_key(k) is true; and whatever get(k)
\* returns for a stored key, it returns the same after any call on another
\* key (insert, remove, entry, entry+insert_or, entry+or_default) and after
\* resize, triggered resizes included.
RoundTrip ==
    CanMutate =>
        /\ \A k \in Keys, v \in Values :
              LET r == InsertOp(buckets, items, k, v)
              IN /\ r.fault = "none" =>
                       /\ GetOp(r.buckets, k) = [ret |-> Some(v), fault |-> "none"]
                       /\ ContainsKeyOp(r.buckets, k) = [ret |-> TRUE, fault |-> "none"]
                 /\ KeepsOthers(r.buckets, k)
        /\ \A k \in Keys :
              /\ KeepsOthers(RemoveOp(buckets, items, k).buckets, k)
              /\ KeepsOthers(EntryOp(buckets, items, k).buckets, k)
              /\ KeepsOthers(EntryOrDefaultOp(buckets, items, k).buckets, k)
              /\ \A d \in Values :
                    KeepsOthers(EntryInsertOrOp(buckets, items, k, d).buckets, k)
        /\ \A k \in Keys :
              LET g == GetOp(buckets, k)
                  nb == ResizeOp(buckets)
              IN (g.fault = "none" /\ g.ret # None) =>
                    /\ GetOp(nb, k) = g
                    /\ ContainsKeyOp(nb, k) = [ret |-> TRUE, fault |-> "none"]

\* both keys went in through insert, the second insert and a later resize
\* rehashed the table, and both are still there
RoundTripWitness ==
    /\ items = NumKeys
    /\ Len(buckets) >= 4
    /\ \A k \in Keys : GetOp(buckets, k).ret # None
    /\ \E k \in Keys : hash[k] % 2 = 1

\* C2: items equals the sum of the lengths of all buckets.
ItemsEqualsSum == items = SumLens(buckets)

\* C3: on a table with zero buckets, get(k) is None and contains_key(k) is
\* false, without a fault.
LookupOnZeroBuckets ==
    Len(buckets) = 0 =>
        \A k \in Keys :
            /\ GetOp(buckets, k) = [ret |-> None, fault |-> "none"]
            /\ ContainsKeyOp(buckets, k) = [ret |-> FALSE, fault |-> "none"]

\* C4: insert(k, v) on a stored key returns Some(previous value), replaces the
\* value and leaves len() unchanged; on a key not stored it returns None and
\* increases len() by exactly 1.
InsertEffect ==
    CanMutate => \A k \in Keys, v \in Values :
        LET r == InsertOp(buckets, items, k, v)
        IN /\ r.fault = "none"
           /\ GetOp(r.buckets, k).ret = Some(v)
           /\ IF Stored(buckets, k)
              THEN r.ret = Some(ValueOf(buckets, k)) /\ r.items = items
              ELSE r.ret = None /\ PlusOne(items, r.items)

\* C5: remove(k) of a stored key returns Some(its value), decreases len() by
\* exactly 1, and afterwards get(k) is None and a second remove(k) is None.
RemovePresent ==
    CanMutate => \A k \in Keys :
        Stored(buckets, k) =>
            LET r == RemoveOp(buckets, items, k)
            IN /\ r.fault = "none"
               /\ r.ret = Some(ValueOf(buckets, k))
               /\ MinusOne(items, r.items)
               /\ GetOp(r.buckets, k) = [ret |-> None, fault |-> "none"]
               /\ RemoveOp(r.buckets, r.items, k).ret = None
               /\ RemoveOp(r.buckets, r.items, k).fault = "none"

\* C6: remove(k) of a key that is not stored returns None and leaves the
\* table unchanged, without fault, the table with zero buckets included.
RemoveAbsent ==
    CanMutate => \A k \in Keys :
        ~Stored(buckets, k) =>
            RemoveOp(buckets, items, k) =
                [buckets |-> buckets, items |-> items, ret |-> None, fault |-> "none"]

\* C7: entry(k).insert_or(d) on a key that is not stored adds exactly the pair
\* (k, d) and returns d, and get(k) is Some(d) afterwards; on a key stored with
\* value v it returns v, keeps v, and the stored pairs are the same as before.
EntrySemantics ==
    CanMutate => \A k \in Keys, d \in Values :
        LET r == EntryInsertOrOp(buckets, items, k, d)
        IN /\ r.fault = "none"
           /\ IF Stored(buckets, k)
              THEN /\ r.ret = Some(ValueOf(buckets, k))
                   /\ GetOp(r.buckets, k).ret = Some(ValueOf(buckets, k))
                   /\ SamePairs(r.buckets, buckets)
              ELSE /\ r.ret = Some(d)
                   /\ GetOp(r.buckets, k).ret = Some(d)
                   /\ Len(Drain(r.buckets)) = Len(Drain(buckets)) + 1
                   /\ \A k2 \in Keys, v2 \in Values :
                         Count(r.buckets, <<k2, v2>>) =
                            Count(buckets, <<k2, v2>>)
                            + (IF k2 = k /\ v2 = d THEN 1 ELSE 0)

\* pairs that only a Vacant handle can have stored (insert counts its pairs in
\* items), next to a key that is absent, so both kinds of handle arise here
EntrySemanticsWitness ==
    /\ ~Panicked
    /\ items = 0
    /\ SumLens(buckets) >= 1
    /\ \E k \in Keys : ~Stored(buckets, k)

\* C8: a finished traversal of a table whose len() is N has yielded exactly N
\* pairs with distinct keys, and they are the pairs (k, v) with get(k) = Some(v).
TraversalComplete ==
    iter.done =>
        LET y == iter.yielded
        IN /\ Len(y) = items
           /\ \A i, j \in 1..Len(y) : y[i][1] = y[j][1] => i = j
           /\ {y[i] : i \in 1..Len(y)} =
                 {<<k, GetOp(buckets, k).ret[1]>> :
                     k \in {kk \in Keys : GetOp(buckets, kk).ret # None}}

\* C9: resize() takes the bucket count from 0 to 1 or from n to 2n, keeps the
\* stored pairs as a multiset (so their number), and every key get finds
\* before is found with the same value after.
ResizeCorrect ==
    CanMutate =>
    LET nb == ResizeOp(buckets)
    IN /\ Len(nb) = (IF Len(buckets) = 0 THEN 1 ELSE 2 * Len(buckets))
       /\ SamePairs(nb, buckets)
       /\ SumLens(nb) = SumLens(buckets)
       /\ \A k \in Keys :
             (GetOp(buckets, k).fault = "none" /\ GetOp(buckets, k).ret # None)
                => GetOp(nb, k) = GetOp(buckets, k)

\* a table that resize has grown to several buckets and whose pairs the
\* rehash has spread over different buckets
ResizeCorrectWitness ==
    /\ Len(buckets) >= 2
    /\ \E i, j \in 1..Len(buckets) :
          i # j /\ buckets[i] # <<>> /\ buckets[j] # <<>>

\* C10: no two stored pairs anywhere in the table have equal keys.
KeyUniqueness ==
    LET d == Drain(buckets)
    IN \A i, j \in 1..Len(d) : d[i][1] = d[j][1] => i = j

\* two keys whose hashes collide sit in one bucket
KeyUniquenessWitness ==
    \E b \in 1..Len(buckets) :
        /\ Len(buckets[b]) >= 2
        /\ Len(buckets) >= 2

\* C11: once at least one bucket is allocated, no call faults: insert, get,
\* contains_key, remove and entry complete without a panic, and the decrement
\* of items in remove never goes below zero.
NoFaultOnceAllocated ==
    (~Panicked /\ Len(buckets) >= 1) =>
        \A k \in Keys :
            /\ GetOp(buckets, k).fault = "none"
            /\ ContainsKeyOp(buckets, k).fault = "none"
            /\ CanMutate =>
                  /\ RemoveOp(buckets, items, k).fault = "none"
                  /\ Stored(buckets, k) => items # 0
                  /\ EntryOp(buckets, items, k).fault = "none"
                  /\ \A v \in Values : InsertOp(buckets, items, k, v).fault = "none"

\* C12: placement. With at least one bucket, every stored pair (k, v) lies in
\* the bucket of index hash(k) mod bucket_count, which is hash(k) AND
\* (bucket_count - 1).
Placement ==
    \A b \in 1..Len(buckets) :
        \A i \in 1..Len(buckets[b]) :
            LET k == buckets[b][i][1]
            IN /\ b - 1 = hash[k] % Len(buckets)
               /\ b - 1 = BitAnd(hash[k], Len(buckets) - 1)

\* after a resize to several buckets, a pair sits in a bucket other than the
\* first and the table has been through insert, entry insertion and remove
PlacementWitness ==
    /\ Len(buckets) >= 2
    /\ \E b \in 2..Len(buckets) : buckets[b] # <<>>
    /\ SumLens(buckets) > items

\* C13: load factor. The number of stored pairs is at most
\* floor(3 * bucket_count / 4) + 1, however the pairs were added.
LoadFactorBounded ==
    SumLens(buckets) <= (3 * Len(buckets)) \div 4 + 1

\* C14: resize trigger of insert. insert(k, v) resizes exactly once, before
\* the bucket is located, when the table has zero buckets or items exceeds
\* 3/4 of the bucket count (compared as numbers, 4 * items > 3 * bucket_count),
\* whether or not k is stored, and does not resize otherwise; and once four
\* distinct keys are in the table it has grown past its initial bucket and
\* every key is retrievable with its value.
ResizeTrigger ==
    /\ CanMutate =>
          \A k \in DOMAIN hash, v \in Values :
              LET n == Len(buckets)
                  due == n = 0 \/ items < 0 \/ 4 * items > 3 * n
                  r == InsertOp(buckets, items, k, v)
              IN /\ r.resized = due
                 /\ Len(r.buckets) = (IF ~due THEN n ELSE IF n = 0 THEN 1 ELSE 2 * n)
    /\ (\A k \in ScenarioKeys : Stored(buckets, k)) =>
          /\ Len(buckets) > INITIAL_NBUCKET
          /\ \A k \in ScenarioKeys :
                GetOp(buckets, k) = [ret |-> Some(ValueOf(buckets, k)), fault |-> "none"]

\* the four keys are in the table, two of them in a bucket other than the first
ResizeTriggerWitness ==
    /\ \A k \in ScenarioKeys : Stored(buckets, k)
    /\ items = Cardinality(ScenarioKeys)
    /\ Len(buckets[2]) = 2

\* n is a power of two
RECURSIVE IsPowerOfTwo(_)
IsPowerOfTwo(n) == n = 1 \/ (n > 1 /\ n % 2 = 0 /\ IsPowerOfTwo(n \div 2))

\* C15: the bucket count is 0 or a power of two, and it is 0 only while no
\* insert, entry or resize has been called: a table with zero buckets is as
\* new() made it, and each of these calls leaves it with a bucket.
PowerOfTwoBuckets ==
    /\ Len(buckets) = 0 \/ IsPowerOfTwo(Len(buckets))
    /\ Len(buckets) = 0 =>
          /\ items = 0
          /\ Len(ResizeOp(buckets)) >= 1
          /\ \A k \in Keys :
                /\ Len(EntryOp(buckets, items, k).buckets) >= 1
                /\ \A v \in Values :
                      /\ Len(InsertOp(buckets, items, k, v).buckets) >= 1
                      /\ Len(EntryInsertOrOp(buckets, items, k, v).buckets) >= 1
    /\ Len(buckets) >= 1 =>
          /\ Len(ResizeOp(buckets)) >= 1
          /\ \A k \in Keys : Len(RemoveOp(buckets, items, k).buckets) >= 1

\* the table has been resized up to four buckets and holds a pair
PowerOfTwoBucketsWitness ==
    /\ Len(buckets) = 4
    /\ SumLens(buckets) >= 1
    /\ ~Panicked

\* the bucket count a resize of n buckets leaves
Doubled(n) == IF n = 0 THEN 1 ELSE 2 * n

\* what each call does to the bucket count, in the current state
BucketCountOfCalls ==
    CanMutate =>
        \A k \in Keys :
            /\ Len(RemoveOp(buckets, items, k).buckets) = Len(buckets)
            /\ LET e == EntryOp(buckets, items, k)
               IN Len(e.buckets) = (IF e.resized THEN Doubled(Len(buckets))
                                    ELSE Len(buckets))
            /\ \A v \in Values :
                  /\ LET r == InsertOp(buckets, items, k, v)
                     IN Len(r.buckets) = (IF r.resized THEN Doubled(Len(buckets))
                                          ELSE Len(buckets))
                  /\ LET r == EntryInsertOrOp(buckets, items, k, v)
                     IN Len(r.buckets) = (IF r.resized THEN Doubled(Len(buckets))
                                          ELSE Len(buckets))

\* C16: the bucket count never decreases, and it changes only by a resize
\* step: a step that changes it doubles it (0 to 1), no step changes it while
\* an Iter is alive (get, contains_key, len, is_empty, traversal), remove
\* leaves it as it is even when it empties the table, and insert and entry
\* change it exactly by the resize they trigger.
BucketCountOnlyGrows ==
    /\ [](BucketCountOfCalls)
    /\ [][/\ Len(buckets') >= Len(buckets)
          /\ Len(buckets') # Len(buckets) =>
                 (CanMutate /\ Len(buckets') = Doubled(Len(buckets)))
          /\ ~CanMutate => buckets' = buckets]_vars

\* removes have emptied a table of several buckets, and the buckets are still there
BucketCountOnlyGrowsWitness ==
    /\ Len(buckets) >= 2
    /\ SumLens(buckets) = 0
    /\ items = 0
    /\ ~Panicked

\* the pairs a cursor at (cb, ci) yields until next() returns None
RECURSIVE Remaining(_, _, _)
Remaining(bs, cb, ci) ==
    LET r == IterNextOp(bs, cb, ci)
    IN IF r.ret = None THEN <<>>
       ELSE <<r.ret[1]>> \o Remaining(bs, r.current_bucket, r.current_item)

\* C17: traversal cursor. A fresh cursor yields, in finitely many steps, the
\* stored pairs in ascending bucket index and ascending position, each once,
\* and then None; a live cursor has yielded a prefix of that sequence and
\* yields the rest; once next() has returned None it returns None again.
TraversalCursor ==
    /\ Remaining(buckets, 0, 0) = Drain(buckets)
    /\ iter.active =>
          /\ iter.yielded \o Remaining(buckets, iter.current_bucket, iter.current_item)
                = Drain(buckets)
          /\ iter.done =>
                /\ iter.yielded = Drain(buckets)
                /\ IterNextOp(buckets, iter.current_bucket, iter.current_item).ret = None

\* a finished traversal that passed an empty bucket, two pairs behind it in
\* one bucket, and empty buckets up to the end
TraversalCursorWitness ==
    /\ iter.done
    /\ Len(iter.yielded) >= 2
    /\ Len(buckets) >= 4
    /\ buckets[1] = <<>>

====
